---------------------------- MODULE Spec2Model ----------------------------
(***************************************************************************)
(* Model of the scanner (src/src/lexer.rs), the token catalog and renderer *)
(* (src/src/token.rs) and the document map of the protocol server          *)
(* (src/src/server.rs) of rs-ts-lsp-server.                                *)
(*                                                                         *)
(* A source text is a sequence of code points, each code point a string of *)
(* length one.  A token value is a record [kind, text]: kind is the name   *)
(* of the Token variant and text its payload (<<>> for a variant without   *)
(* payload).  One action of the model is one iteration of the main loop of *)
(* Lexer::lex, the push of the Eof token, or the call of tokens_to_source  *)
(* on the finished token list.                                             *)
(***************************************************************************)
EXTENDS Integers, Sequences, FiniteSets, TLC

\* The scan of one text and the rendering of its tokens.
VARIABLES source, pos, line, column, tokens, starts, pc, rendered

\* One use of the catalog: a kind spelled and the spelling classified, or a
\* text classified and the kind spelled.
VARIABLES cat_pc, cat_kind, cat_text, cat_result

\* One rendering of a token sequence built by hand: the tokens, how many of
\* them the fold has taken, the accumulated output, and the scan of the
\* output.
VARIABLES hand_tokens, hand_index, hand_acc, hand_pc, hand_rescan

\* The protocol server: the document map and, as history, the notifications
\* handled so far.
VARIABLES documents, delivered

\* Handlers of the server running at the same time: the notification or
\* request and the position of each, whether the state mutex is locked, and,
\* as history, the handlers in the order they acquired it.
VARIABLES handlers, locked, lock_order

scanVars == <<source, pos, line, column, tokens, starts, pc, rendered>>

catVars == <<cat_pc, cat_kind, cat_text, cat_result>>

handVars == <<hand_tokens, hand_index, hand_acc, hand_pc, hand_rescan>>

serverVars == <<documents, delivered>>

taskVars == <<handlers, locked, lock_order>>

vars == <<scanVars, catVars, handVars, serverVars, taskVars>>

\* Longest generated source text.
MaxLen == 3

\* Option::None of find_match, token_fragment and Peekable::peek.
None == "None"

(***************************************************************************)
(* Character classes                                                       *)
(***************************************************************************)
AsciiDigits == {"0", "1", "2", "3", "4", "5", "6", "7", "8", "9"}

AsciiLower ==
    {"a", "b", "c", "d", "e", "f", "g", "h", "i", "j", "k", "l", "m",
     "n", "o", "p", "q", "r", "s", "t", "u", "v", "w", "x", "y", "z"}

AsciiUpper ==
    {"A", "B", "C", "D", "E", "F", "G", "H", "I", "J", "K", "L", "M",
     "N", "O", "P", "Q", "R", "S", "T", "U", "V", "W", "X", "Y", "Z"}

\* char::is_whitespace, on the code points the model draws from.
is_whitespace(c) == c \in {" ", "\t", "\n", "\r", "\f"}

is_ascii_digit(c) == c \in AsciiDigits

is_ascii_alphabetic(c) == c \in AsciiLower \cup AsciiUpper

is_ascii_alphanumeric(c) == is_ascii_alphabetic(c) \/ is_ascii_digit(c)

\* Start of an identifier (lexer.rs:222).
is_identifier_start(c) == is_ascii_alphabetic(c) \/ c = "_" \/ c = "$"

\* Continuation of an identifier (lexer.rs:225).
is_identifier_part(c) == is_ascii_alphanumeric(c) \/ c = "_" \/ c = "$"

\* token.rs: is_identifier_char.
is_identifier_char(c) == is_ascii_alphanumeric(c) \/ c \in {"_", "$"}

(***************************************************************************)
(* Token catalog                                                           *)
(***************************************************************************)
Tok(k, t) == [kind |-> k, text |-> t]

TriviaKinds ==
    {"SingleLineCommentTrivia", "MultiLineCommentTrivia", "NewLineTrivia",
     "WhitespaceTrivia", "ShebangTrivia", "ConflictMarkerTrivia"}

\* token.rs: find_match
find_match(s) ==
    CASE s = <<"+">> -> "Plus"
      [] s = <<"-">> -> "Minus"
      [] s = <<"*">> -> "Asterisk"
      [] s = <<"/">> -> "Slash"
      [] s = <<"%">> -> "Percent"
      [] s = <<"*", "*">> -> "AsteriskAsterisk"
      [] s = <<"+", "+">> -> "PlusPlus"
      [] s = <<"-", "-">> -> "MinusMinus"
      [] s = <<"=">> -> "Equals"
      [] s = <<"+", "=">> -> "PlusEquals"
      [] s = <<"-", "=">> -> "MinusEquals"
      [] s = <<"*", "=">> -> "AsteriskEquals"
      [] s = <<"/", "=">> -> "SlashEquals"
      [] s = <<"%", "=">> -> "PercentEquals"
      [] s = <<"*", "*", "=">> -> "AsteriskAsteriskEquals"
      [] s = <<"&", "=">> -> "AmpersandEquals"
      [] s = <<"|", "=">> -> "BarEquals"
      [] s = <<"^", "=">> -> "CaretEquals"
      [] s = <<"=", "=">> -> "EqualsEquals"
      [] s = <<"!", "=">> -> "ExclamationEquals"
      [] s = <<"=", "=", "=">> -> "EqualsEqualsEquals"
      [] s = <<"!", "=", "=">> -> "ExclamationEqualsEquals"
      [] s = <<">">> -> "GreaterThan"
      [] s = <<"<">> -> "LessThan"
      [] s = <<">", "=">> -> "GreaterThanEquals"
      [] s = <<"<", "=">> -> "LessThanEquals"
      [] s = <<"&", "&">> -> "AmpersandAmpersand"
      [] s = <<"|", "|">> -> "BarBar"
      [] s = <<"!">> -> "Bang"
      [] s = <<"&">> -> "Ampersand"
      [] s = <<"|">> -> "Bar"
      [] s = <<"^">> -> "Caret"
      [] s = <<"~">> -> "Tilde"
      [] s = <<"?", "?">> -> "QuestionQuestion"
      [] s = <<"=", ">">> -> "EqualsGreaterThan"
      [] s = <<".", ".", ".">> -> "DotDotDot"
      [] s = <<"?">> -> "Question"
      [] s = <<"?", ".">> -> "QuestionDot"
      [] s = <<":">> -> "Colon"
      [] s = <<",">> -> "Comma"
      [] s = <<";">> -> "Semicolon"
      [] s = <<".">> -> "Dot"
      [] s = <<"(">> -> "OpenParen"
      [] s = <<")">> -> "CloseParen"
      [] s = <<"{">> -> "OpenBrace"
      [] s = <<"}">> -> "CloseBrace"
      [] s = <<"[">> -> "OpenBracket"
      [] s = <<"]">> -> "CloseBracket"
      [] s = <<"b", "r", "e", "a", "k">> -> "Break"
      [] s = <<"c", "a", "s", "e">> -> "Case"
      [] s = <<"c", "a", "t", "c", "h">> -> "Catch"
      [] s = <<"c", "l", "a", "s", "s">> -> "Class"
      [] s = <<"c", "o", "n", "s", "t">> -> "Const"
      [] s = <<"c", "o", "n", "t", "i", "n", "u", "e">> -> "Continue"
      [] s = <<"d", "e", "b", "u", "g", "g", "e", "r">> -> "Debugger"
      [] s = <<"d", "e", "f", "a", "u", "l", "t">> -> "Default"
      [] s = <<"d", "e", "l", "e", "t", "e">> -> "Delete"
      [] s = <<"d", "o">> -> "Do"
      [] s = <<"e", "l", "s", "e">> -> "Else"
      [] s = <<"e", "n", "u", "m">> -> "Enum"
      [] s = <<"e", "x", "p", "o", "r", "t">> -> "Export"
      [] s = <<"e", "x", "t", "e", "n", "d", "s">> -> "Extends"
      [] s = <<"f", "i", "n", "a", "l", "l", "y">> -> "Finally"
      [] s = <<"f", "o", "r">> -> "For"
      [] s = <<"f", "u", "n", "c", "t", "i", "o", "n">> -> "Function"
      [] s = <<"i", "f">> -> "If"
      [] s = <<"i", "m", "p", "o", "r", "t">> -> "Import"
      [] s = <<"i", "n">> -> "In"
      [] s = <<"i", "n", "s", "t", "a", "n", "c", "e", "o", "f">> -> "InstanceOf"
      [] s = <<"l", "e", "t">> -> "Let"
      [] s = <<"n", "e", "w">> -> "New"
      [] s = <<"r", "e", "t", "u", "r", "n">> -> "Return"
      [] s = <<"s", "u", "p", "e", "r">> -> "Super"
      [] s = <<"s", "w", "i", "t", "c", "h">> -> "Switch"
      [] s = <<"t", "h", "i", "s">> -> "This"
      [] s = <<"t", "h", "r", "o", "w">> -> "Throw"
      [] s = <<"t", "r", "y">> -> "Try"
      [] s = <<"t", "y", "p", "e", "o", "f">> -> "TypeOf"
      [] s = <<"v", "a", "r">> -> "Var"
      [] s = <<"v", "o", "i", "d">> -> "Void"
      [] s = <<"w", "h", "i", "l", "e">> -> "While"
      [] s = <<"w", "i", "t", "h">> -> "With"
      [] s = <<"i", "m", "p", "l", "e", "m", "e", "n", "t", "s">> -> "Implements"
      [] s = <<"i", "n", "t", "e", "r", "f", "a", "c", "e">> -> "Interface"
      [] s = <<"p", "a", "c", "k", "a", "g", "e">> -> "Package"
      [] s = <<"p", "r", "i", "v", "a", "t", "e">> -> "Private"
      [] s = <<"p", "r", "o", "t", "e", "c", "t", "e", "d">> -> "Protected"
      [] s = <<"p", "u", "b", "l", "i", "c">> -> "Public"
      [] s = <<"s", "t", "a", "t", "i", "c">> -> "Static"
      [] s = <<"y", "i", "e", "l", "d">> -> "Yield"
      [] s = <<"a", "b", "s", "t", "r", "a", "c", "t">> -> "Abstract"
      [] s = <<"a", "s">> -> "As"
      [] s = <<"a", "s", "s", "e", "r", "t", "s">> -> "Asserts"
      [] s = <<"a", "n", "y">> -> "Any"
      [] s = <<"a", "s", "y", "n", "c">> -> "Async"
      [] s = <<"a", "w", "a", "i", "t">> -> "Await"
      [] s = <<"b", "o", "o", "l", "e", "a", "n">> -> "Boolean"
      [] s = <<"c", "o", "n", "s", "t", "r", "u", "c", "t", "o", "r">> -> "Constructor"
      [] s = <<"d", "e", "c", "l", "a", "r", "e">> -> "Declare"
      [] s = <<"g", "e", "t">> -> "Get"
      [] s = <<"i", "n", "f", "e", "r">> -> "Infer"
      [] s = <<"i", "s">> -> "Is"
      [] s = <<"k", "e", "y", "o", "f">> -> "KeyOf"
      [] s = <<"m", "o", "d", "u", "l", "e">> -> "Module"
      [] s = <<"n", "a", "m", "e", "s", "p", "a", "c", "e">> -> "Namespace"
      [] s = <<"n", "e", "v", "e", "r">> -> "Never"
      [] s = <<"r", "e", "a", "d", "o", "n", "l", "y">> -> "Readonly"
      [] s = <<"r", "e", "q", "u", "i", "r", "e">> -> "Require"
      [] s = <<"n", "u", "m", "b", "e", "r">> -> "Number"
      [] s = <<"o", "b", "j", "e", "c", "t">> -> "Object"
      [] s = <<"s", "e", "t">> -> "Set"
      [] s = <<"s", "t", "r", "i", "n", "g">> -> "String"
      [] s = <<"s", "y", "m", "b", "o", "l">> -> "Symbol"
      [] s = <<"t", "y", "p", "e">> -> "Type"
      [] s = <<"u", "n", "d", "e", "f", "i", "n", "e", "d">> -> "Undefined"
      [] s = <<"u", "n", "i", "q", "u", "e">> -> "Unique"
      [] s = <<"u", "n", "k", "n", "o", "w", "n">> -> "Unknown"
      [] s = <<"f", "r", "o", "m">> -> "From"
      [] s = <<"g", "l", "o", "b", "a", "l">> -> "Global"
      [] s = <<"b", "i", "g", "i", "n", "t">> -> "BigInt"
      [] s = <<"o", "f">> -> "Of"
      [] s = <<"s", "a", "t", "i", "s", "f", "i", "e", "s">> -> "Satisfies"
      [] s = <<"o", "v", "e", "r", "r", "i", "d", "e">> -> "Override"
      [] s = <<"u", "s", "i", "n", "g">> -> "Using"
      [] OTHER -> None

\* char::escape_default on one code point: backslash escapes for tab, CR,
\* LF, both quotes and the backslash, printable ASCII unchanged, and the
\* \u{hex} form for every other code point (form feed, U+000C, is the one the
\* model draws).
escape_default(c) ==
    CASE c = "\t" -> <<"\\", "t">>
      [] c = "\f" -> <<"\\", "u", "{", "c", "}">>
      [] c = "\r" -> <<"\\", "r">>
      [] c = "\n" -> <<"\\", "n">>
      [] c = "'"  -> <<"\\", "'">>
      [] c = "\"" -> <<"\\", "\"">>
      [] c = "\\" -> <<"\\", "\\">>
      [] OTHER    -> <<c>>

RECURSIVE escape_string(_)
escape_string(value) ==
    IF value = <<>> THEN <<>>
    ELSE escape_default(Head(value)) \o escape_string(Tail(value))

\* escape_regex_body with q = "/": a backslash before every q.
RECURSIVE escape_char(_, _)
escape_char(value, q) ==
    IF value = <<>> THEN <<>>
    ELSE (IF Head(value) = q THEN <<"\\", q>> ELSE <<Head(value)>>)
             \o escape_char(Tail(value), q)

\* Fragment of a trivia token that carries its source text.
trivia_text(tok) == tok.text

\* The fixed fragments of token_fragment, by kind.
fixed_fragment(k) ==
    CASE k = "Illegal" -> <<"/", "*", "i", "l", "l", "e", "g", "a", "l", "*", "/">>
      [] k = "DotDotDot" -> <<".", ".", ".">>
      [] k = "QuestionDot" -> <<"?", ".">>
      [] k = "LessThanSlash" -> <<"<", "/">>
      [] k = "Plus" -> <<"+">>
      [] k = "Minus" -> <<"-">>
      [] k = "Asterisk" -> <<"*">>
      [] k = "AsteriskAsterisk" -> <<"*", "*">>
      [] k = "Slash" -> <<"/">>
      [] k = "Percent" -> <<"%">>
      [] k = "PlusPlus" -> <<"+", "+">>
      [] k = "MinusMinus" -> <<"-", "-">>
      [] k = "LessThanLessThan" -> <<"<", "<">>
      [] k = "GreaterThanGreaterThan" -> <<">", ">">>
      [] k = "GreaterThanGreaterThanGreaterThan" -> <<">", ">", ">">>
      [] k = "Ampersand" -> <<"&">>
      [] k = "Bar" -> <<"|">>
      [] k = "Caret" -> <<"^">>
      [] k = "Bang" -> <<"!">>
      [] k = "Tilde" -> <<"~">>
      [] k = "AmpersandAmpersand" -> <<"&", "&">>
      [] k = "BarBar" -> <<"|", "|">>
      [] k = "Question" -> <<"?">>
      [] k = "At" -> <<"@">>
      [] k = "QuestionQuestion" -> <<"?", "?">>
      [] k = "Hash" -> <<"#">>
      [] k = "Equals" -> <<"=">>
      [] k = "PlusEquals" -> <<"+", "=">>
      [] k = "MinusEquals" -> <<"-", "=">>
      [] k = "AsteriskEquals" -> <<"*", "=">>
      [] k = "AsteriskAsteriskEquals" -> <<"*", "*", "=">>
      [] k = "SlashEquals" -> <<"/", "=">>
      [] k = "PercentEquals" -> <<"%", "=">>
      [] k = "LessThanLessThanEquals" -> <<"<", "<", "=">>
      [] k = "GreaterThanGreaterThanEquals" -> <<">", ">", "=">>
      [] k = "GreaterThanGreaterThanGreaterThanEquals" -> <<">", ">", ">", "=">>
      [] k = "AmpersandEquals" -> <<"&", "=">>
      [] k = "BarEquals" -> <<"|", "=">>
      [] k = "CaretEquals" -> <<"^", "=">>
      [] k = "BarBarEquals" -> <<"|", "|", "=">>
      [] k = "AmpersandAmpersandEquals" -> <<"&", "&", "=">>
      [] k = "QuestionQuestionEquals" -> <<"?", "?", "=">>
      [] k = "EqualsEquals" -> <<"=", "=">>
      [] k = "ExclamationEquals" -> <<"!", "=">>
      [] k = "EqualsEqualsEquals" -> <<"=", "=", "=">>
      [] k = "ExclamationEqualsEquals" -> <<"!", "=", "=">>
      [] k = "GreaterThan" -> <<">">>
      [] k = "LessThan" -> <<"<">>
      [] k = "GreaterThanEquals" -> <<">", "=">>
      [] k = "LessThanEquals" -> <<"<", "=">>
      [] k = "EqualsGreaterThan" -> <<"=", ">">>
      [] k = "Comma" -> <<",">>
      [] k = "Semicolon" -> <<";">>
      [] k = "Colon" -> <<":">>
      [] k = "Dot" -> <<".">>
      [] k = "OpenParen" -> <<"(">>
      [] k = "CloseParen" -> <<")">>
      [] k = "OpenBrace" -> <<"{">>
      [] k = "CloseBrace" -> <<"}">>
      [] k = "OpenBracket" -> <<"[">>
      [] k = "CloseBracket" -> <<"]">>
      [] k = "Break" -> <<"b", "r", "e", "a", "k">>
      [] k = "Case" -> <<"c", "a", "s", "e">>
      [] k = "Catch" -> <<"c", "a", "t", "c", "h">>
      [] k = "Class" -> <<"c", "l", "a", "s", "s">>
      [] k = "Const" -> <<"c", "o", "n", "s", "t">>
      [] k = "Continue" -> <<"c", "o", "n", "t", "i", "n", "u", "e">>
      [] k = "Debugger" -> <<"d", "e", "b", "u", "g", "g", "e", "r">>
      [] k = "Default" -> <<"d", "e", "f", "a", "u", "l", "t">>
      [] k = "Delete" -> <<"d", "e", "l", "e", "t", "e">>
      [] k = "Do" -> <<"d", "o">>
      [] k = "Else" -> <<"e", "l", "s", "e">>
      [] k = "Enum" -> <<"e", "n", "u", "m">>
      [] k = "Export" -> <<"e", "x", "p", "o", "r", "t">>
      [] k = "Extends" -> <<"e", "x", "t", "e", "n", "d", "s">>
      [] k = "False" -> <<"f", "a", "l", "s", "e">>
      [] k = "Finally" -> <<"f", "i", "n", "a", "l", "l", "y">>
      [] k = "For" -> <<"f", "o", "r">>
      [] k = "Function" -> <<"f", "u", "n", "c", "t", "i", "o", "n">>
      [] k = "If" -> <<"i", "f">>
      [] k = "Import" -> <<"i", "m", "p", "o", "r", "t">>
      [] k = "In" -> <<"i", "n">>
      [] k = "InstanceOf" -> <<"i", "n", "s", "t", "a", "n", "c", "e", "o", "f">>
      [] k = "New" -> <<"n", "e", "w">>
      [] k = "Null" -> <<"n", "u", "l", "l">>
      [] k = "Return" -> <<"r", "e", "t", "u", "r", "n">>
      [] k = "Super" -> <<"s", "u", "p", "e", "r">>
      [] k = "Switch" -> <<"s", "w", "i", "t", "c", "h">>
      [] k = "This" -> <<"t", "h", "i", "s">>
      [] k = "Throw" -> <<"t", "h", "r", "o", "w">>
      [] k = "True" -> <<"t", "r", "u", "e">>
      [] k = "Try" -> <<"t", "r", "y">>
      [] k = "TypeOf" -> <<"t", "y", "p", "e", "o", "f">>
      [] k = "Var" -> <<"v", "a", "r">>
      [] k = "Void" -> <<"v", "o", "i", "d">>
      [] k = "While" -> <<"w", "h", "i", "l", "e">>
      [] k = "With" -> <<"w", "i", "t", "h">>
      [] k = "Implements" -> <<"i", "m", "p", "l", "e", "m", "e", "n", "t", "s">>
      [] k = "Interface" -> <<"i", "n", "t", "e", "r", "f", "a", "c", "e">>
      [] k = "Let" -> <<"l", "e", "t">>
      [] k = "Package" -> <<"p", "a", "c", "k", "a", "g", "e">>
      [] k = "Private" -> <<"p", "r", "i", "v", "a", "t", "e">>
      [] k = "Protected" -> <<"p", "r", "o", "t", "e", "c", "t", "e", "d">>
      [] k = "Public" -> <<"p", "u", "b", "l", "i", "c">>
      [] k = "Static" -> <<"s", "t", "a", "t", "i", "c">>
      [] k = "Yield" -> <<"y", "i", "e", "l", "d">>
      [] k = "Abstract" -> <<"a", "b", "s", "t", "r", "a", "c", "t">>
      [] k = "As" -> <<"a", "s">>
      [] k = "Asserts" -> <<"a", "s", "s", "e", "r", "t", "s">>
      [] k = "Any" -> <<"a", "n", "y">>
      [] k = "Async" -> <<"a", "s", "y", "n", "c">>
      [] k = "Await" -> <<"a", "w", "a", "i", "t">>
      [] k = "Boolean" -> <<"b", "o", "o", "l", "e", "a", "n">>
      [] k = "Constructor" -> <<"c", "o", "n", "s", "t", "r", "u", "c", "t", "o", "r">>
      [] k = "Declare" -> <<"d", "e", "c", "l", "a", "r", "e">>
      [] k = "Get" -> <<"g", "e", "t">>
      [] k = "Infer" -> <<"i", "n", "f", "e", "r">>
      [] k = "Is" -> <<"i", "s">>
      [] k = "KeyOf" -> <<"k", "e", "y", "o", "f">>
      [] k = "Module" -> <<"m", "o", "d", "u", "l", "e">>
      [] k = "Namespace" -> <<"n", "a", "m", "e", "s", "p", "a", "c", "e">>
      [] k = "Never" -> <<"n", "e", "v", "e", "r">>
      [] k = "Readonly" -> <<"r", "e", "a", "d", "o", "n", "l", "y">>
      [] k = "Require" -> <<"r", "e", "q", "u", "i", "r", "e">>
      [] k = "Number" -> <<"n", "u", "m", "b", "e", "r">>
      [] k = "Object" -> <<"o", "b", "j", "e", "c", "t">>
      [] k = "Set" -> <<"s", "e", "t">>
      [] k = "String" -> <<"s", "t", "r", "i", "n", "g">>
      [] k = "Symbol" -> <<"s", "y", "m", "b", "o", "l">>
      [] k = "Type" -> <<"t", "y", "p", "e">>
      [] k = "Undefined" -> <<"u", "n", "d", "e", "f", "i", "n", "e", "d">>
      [] k = "Unique" -> <<"u", "n", "i", "q", "u", "e">>
      [] k = "Unknown" -> <<"u", "n", "k", "n", "o", "w", "n">>
      [] k = "From" -> <<"f", "r", "o", "m">>
      [] k = "Global" -> <<"g", "l", "o", "b", "a", "l">>
      [] k = "BigInt" -> <<"b", "i", "g", "i", "n", "t">>
      [] k = "Of" -> <<"o", "f">>
      [] k = "Satisfies" -> <<"s", "a", "t", "i", "s", "f", "i", "e", "s">>
      [] k = "Override" -> <<"o", "v", "e", "r", "r", "i", "d", "e">>
      [] k = "Using" -> <<"u", "s", "i", "n", "g">>

\* token_fragment: None for Eof, else the source fragment of the token.
token_fragment(tok) ==
    LET k == tok.kind IN
    CASE k = "Eof" -> None
      [] k \in TriviaKinds /\ tok.text # <<>> -> trivia_text(tok)
      [] k = "SingleLineCommentTrivia" -> <<"/", "/">>
      [] k = "MultiLineCommentTrivia" -> <<"/", "*", " ", "*", "/">>
      [] k = "NewLineTrivia" -> <<"\n">>
      [] k = "WhitespaceTrivia" -> <<" ">>
      [] k = "ShebangTrivia" -> <<"#", "!">>
      [] k = "ConflictMarkerTrivia" -> <<"<", "<", "<", "<", "<", "<", "<">>
      [] k = "Identifier" -> tok.text
      [] k = "NumericLiteral" -> tok.text
      [] k = "BigIntLiteral" -> tok.text \o <<"n">>
      [] k = "StringLiteral" -> <<"\"">> \o escape_string(tok.text) \o <<"\"">>
      [] k = "PrivateIdentifier" -> <<"#">> \o tok.text
      [] k = "RegularExpressionLiteral" ->
            <<"/">> \o escape_char(tok.text, "/") \o <<"/">>
      [] k \in {"JsxText", "JsxTextAllWhiteSpaces"} -> tok.text
      [] OTHER -> fixed_fragment(k)

(***************************************************************************)
(* Scanner: Lexer::lex                                                     *)
(*                                                                         *)
(* p is the number of code points already consumed from the text s, so     *)
(* chars.peek() is s[p + 1] and chars.clone().nth(1) is s[p + 2].          *)
(***************************************************************************)
peek(s, p) == IF p < Len(s) THEN s[p + 1] ELSE None

nth1(s, p) == IF p + 1 < Len(s) THEN s[p + 2] ELSE None

\* lexer.rs:248-257: up to four code points of lookahead.
op_chars(s, p) == SubSeq(s, p + 1, IF p + 4 <= Len(s) THEN p + 4 ELSE Len(s))

\* Longest-first search of lexer.rs:260: the first len, from len down to
\* 1, whose prefix find_match knows; 0 when there is none.
\* Shortest-first search, the first hit of lengths 1, 2, ... up to len.
op_match_shortest(chars, len) ==
    IF \E n \in 1..len : find_match(SubSeq(chars, 1, n)) # None
    THEN CHOOSE n \in 1..len :
             /\ find_match(SubSeq(chars, 1, n)) # None
             /\ \A m \in 1..(n - 1) : find_match(SubSeq(chars, 1, m)) = None
    ELSE 0

RECURSIVE op_match(_, _)
op_match(chars, len) ==
    IF len = 0 THEN 0
    ELSE IF find_match(SubSeq(chars, 1, len)) # None THEN len
    ELSE op_match(chars, len - 1)

\* The branch one iteration of the main loop takes at cursor p < Len(s),
\* in the order the code tests them.
branch(s, p) ==
    LET ch == peek(s, p) IN
    IF is_whitespace(ch) THEN (IF ch = "\n" THEN "newline" ELSE "whitespace")
    ELSE IF ch = "/" /\ nth1(s, p) = "/" THEN "line_comment"
    ELSE IF ch = "/" /\ nth1(s, p) = "*" THEN "block_comment"
    ELSE IF ch = "\"" \/ ch = "'" THEN "string"
    ELSE IF is_ascii_digit(ch) THEN "number"
    ELSE IF is_identifier_start(ch) THEN "identifier"
    ELSE IF op_match(op_chars(s, p), Len(op_chars(s, p))) > 0 THEN "operator"
    ELSE "illegal"

\* Result of one iteration: the cursor, line and column after it and the
\* token value it pushed.
Scanned(p, ln, col, v) == [pos |-> p, line |-> ln, column |-> col, value |-> v]

\* A newline branch that resets the column without counting the line.
lex_newline_same_line(s, p, ln, col) ==
    Scanned(p + 1, ln, 1, Tok("NewLineTrivia", <<>>))

\* lexer.rs:32-42
lex_newline(s, p, ln, col) == Scanned(p + 1, ln + 1, 1, Tok("NewLineTrivia", <<>>))

\* lexer.rs:46-53: end of the run of whitespace other than newline.
RECURSIVE whitespace_end(_, _)
whitespace_end(s, p) ==
    IF p < Len(s) /\ ~(s[p + 1] = "\n" \/ ~is_whitespace(s[p + 1]))
    THEN whitespace_end(s, p + 1)
    ELSE p

\* lexer.rs:44-59
lex_whitespace(s, p, ln, col) ==
    LET e == whitespace_end(s, p) IN
    Scanned(e, ln, col + (e - p), Tok("WhitespaceTrivia", SubSeq(s, p + 1, e)))

\* lexer.rs:72-79: end of the line.
RECURSIVE line_end(_, _)
line_end(s, p) ==
    IF p < Len(s) /\ s[p + 1] # "\n" THEN line_end(s, p + 1) ELSE p

\* lexer.rs:66-85
lex_line_comment(s, p, ln, col) ==
    LET e == line_end(s, p + 2) IN
    Scanned(e, ln, col + 2 + (e - (p + 2)),
            Tok("SingleLineCommentTrivia", <<"/", "/">> \o SubSeq(s, p + 3, e)))

\* A loop without nesting: the first */ ends the comment.
RECURSIVE comment_loop_flat(_, _, _, _, _, _)
comment_loop_flat(s, p, ln, col, depth, comment) ==
    IF p >= Len(s) THEN Scanned(p, ln, col, comment)
    ELSE LET c == s[p + 1] IN
         IF c = "\n"
         THEN comment_loop_flat(s, p + 1, ln + 1, 1, depth, Append(comment, c))
         ELSE IF c = "*" /\ nth1(s, p) = "/"
         THEN Scanned(p + 2, ln, col + 1, comment \o <<"*", "/">>)
         ELSE comment_loop_flat(s, p + 1, ln, col + 1, depth, Append(comment, c))

\* lexer.rs:93-121: the loop over the body of a block comment.
RECURSIVE comment_loop(_, _, _, _, _, _)
comment_loop(s, p, ln, col, depth, comment) ==
    IF p >= Len(s) THEN Scanned(p, ln, col, comment)
    ELSE LET c == s[p + 1] IN
         IF c = "\n"
         THEN comment_loop(s, p + 1, ln + 1, 1, depth, Append(comment, c))
         ELSE IF c = "*" /\ nth1(s, p) = "/"
         THEN IF depth - 1 = 0
              THEN Scanned(p + 2, ln, col + 1, comment \o <<"*", "/">>)
              ELSE comment_loop(s, p + 2, ln, col + 1, depth - 1,
                                comment \o <<"*", "/">>)
         ELSE IF c = "/" /\ nth1(s, p) = "*"
         THEN comment_loop(s, p + 2, ln, col + 1, depth + 1,
                           comment \o <<"/", "*">>)
         ELSE comment_loop(s, p + 1, ln, col + 1, depth, Append(comment, c))

\* lexer.rs:86-127
lex_block_comment(s, p, ln, col) ==
    LET r == comment_loop(s, p + 2, ln, col + 2, 1, <<"/", "*">>) IN
    Scanned(r.pos, r.line, r.column, Tok("MultiLineCommentTrivia", r.value))

\* lexer.rs:141-149: the character an escape stands for.
unescape(c) ==
    CASE c = "n" -> "\n"
      [] c = "t" -> "\t"
      [] c = "r" -> "\r"
      [] c = "\\" -> "\\"
      [] c = "\"" -> "\""
      [] c = "'" -> "'"
      [] OTHER -> c

\* A loop that either quote character closes.
RECURSIVE string_loop_any_quote(_, _, _, _, _, _, _)
string_loop_any_quote(s, p, ln, col, quote, escaped, value) ==
    IF p >= Len(s) THEN Scanned(p, ln, col, value)
    ELSE LET c == s[p + 1] IN
         IF escaped
         THEN string_loop_any_quote(s, p + 1, ln, col + 1, quote, FALSE,
                                    Append(value, unescape(c)))
         ELSE IF c = "\\"
         THEN string_loop_any_quote(s, p + 1, ln, col + 1, quote, TRUE, value)
         ELSE IF c = "\"" \/ c = "'"
         THEN Scanned(p + 1, ln, col + 1, value)
         ELSE IF c = "\n"
         THEN string_loop_any_quote(s, p + 1, ln + 1, 1, quote, FALSE,
                                    Append(value, c))
         ELSE string_loop_any_quote(s, p + 1, ln, col + 1, quote, FALSE,
                                    Append(value, c))

\* lexer.rs:139-171: the loop over the body of a string literal.
RECURSIVE string_loop(_, _, _, _, _, _, _)
string_loop(s, p, ln, col, quote, escaped, value) ==
    IF p >= Len(s) THEN Scanned(p, ln, col, value)
    ELSE LET c == s[p + 1] IN
         IF escaped
         THEN string_loop(s, p + 1, ln, col + 1, quote, FALSE,
                          Append(value, unescape(c)))
         ELSE IF c = "\\"
         THEN string_loop(s, p + 1, ln, col + 1, quote, TRUE, value)
         ELSE IF c = quote
         THEN Scanned(p + 1, ln, col + 1, value)
         ELSE IF c = "\n"
         THEN string_loop(s, p + 1, ln + 1, 1, quote, FALSE, Append(value, c))
         ELSE string_loop(s, p + 1, ln, col + 1, quote, FALSE, Append(value, c))

\* lexer.rs:132-178
lex_string(s, p, ln, col) ==
    LET r == string_loop(s, p + 1, ln, col + 1, s[p + 1], FALSE, <<>>) IN
    Scanned(r.pos, r.line, r.column, Tok("StringLiteral", r.value))

\* A loop that takes an n as BigInt suffix after a run with a dot as well.
RECURSIVE number_loop_dot_bigint(_, _, _, _, _)
number_loop_dot_bigint(s, p, col, has_dot, num_str) ==
    IF p >= Len(s) THEN Scanned(p, 0, col, Tok("NumericLiteral", num_str))
    ELSE LET c == s[p + 1] IN
         IF is_ascii_digit(c)
         THEN number_loop_dot_bigint(s, p + 1, col + 1, has_dot, Append(num_str, c))
         ELSE IF c = "." /\ ~has_dot
         THEN number_loop_dot_bigint(s, p + 1, col + 1, TRUE, Append(num_str, c))
         ELSE IF c = "n"
         THEN Scanned(p + 1, 0, col + 1, Tok("BigIntLiteral", num_str))
         ELSE Scanned(p, 0, col, Tok("NumericLiteral", num_str))

\* A loop that keeps the n of a BigInt literal in the payload.
RECURSIVE number_loop_keeps_n(_, _, _, _, _)
number_loop_keeps_n(s, p, col, has_dot, num_str) ==
    IF p >= Len(s) THEN Scanned(p, 0, col, Tok("NumericLiteral", num_str))
    ELSE LET c == s[p + 1] IN
         IF is_ascii_digit(c)
         THEN number_loop_keeps_n(s, p + 1, col + 1, has_dot, Append(num_str, c))
         ELSE IF c = "." /\ ~has_dot
         THEN number_loop_keeps_n(s, p + 1, col + 1, TRUE, Append(num_str, c))
         ELSE IF c = "n" /\ ~has_dot
         THEN Scanned(p + 1, 0, col + 1, Tok("BigIntLiteral", Append(num_str, c)))
         ELSE Scanned(p, 0, col, Tok("NumericLiteral", num_str))

\* lexer.rs:187-206: the loop over a numeric literal; the value of the
\* result is the token, BigIntLiteral when the loop ended on an n.
RECURSIVE number_loop(_, _, _, _, _)
number_loop(s, p, col, has_dot, num_str) ==
    IF p >= Len(s) THEN Scanned(p, 0, col, Tok("NumericLiteral", num_str))
    ELSE LET c == s[p + 1] IN
         IF is_ascii_digit(c)
         THEN number_loop(s, p + 1, col + 1, has_dot, Append(num_str, c))
         ELSE IF c = "." /\ ~has_dot
         THEN number_loop(s, p + 1, col + 1, TRUE, Append(num_str, c))
         ELSE IF c = "n" /\ ~has_dot
         THEN Scanned(p + 1, 0, col + 1, Tok("BigIntLiteral", num_str))
         ELSE Scanned(p, 0, col, Tok("NumericLiteral", num_str))

\* lexer.rs:182-218
lex_number(s, p, ln, col) ==
    LET r == number_loop(s, p, col, FALSE, <<>>) IN
    Scanned(r.pos, ln, r.column, r.value)

\* A run that letters, _ and $ continue, and digits do not.
RECURSIVE ident_end_no_digits(_, _)
ident_end_no_digits(s, p) ==
    IF p < Len(s) /\ is_identifier_start(s[p + 1])
    THEN ident_end_no_digits(s, p + 1)
    ELSE p

\* lexer.rs:224-232: end of the identifier run.
RECURSIVE ident_end(_, _)
ident_end(s, p) ==
    IF p < Len(s) /\ is_identifier_part(s[p + 1]) THEN ident_end(s, p + 1) ELSE p

\* lexer.rs:235-236
keyword_or_identifier(ident) ==
    IF find_match(ident) # None THEN Tok(find_match(ident), <<>>)
    ELSE Tok("Identifier", ident)

\* lexer.rs:222-242
lex_identifier(s, p, ln, col) ==
    LET e == ident_end(s, p) IN
    Scanned(e, ln, col + (e - p), keyword_or_identifier(SubSeq(s, p + 1, e)))

\* lexer.rs:269-278: consume n code points, one at a time.
RECURSIVE consume(_, _, _, _, _)
consume(s, p, ln, col, n) ==
    IF n = 0 \/ p >= Len(s) THEN Scanned(p, ln, col, None)
    ELSE IF s[p + 1] = "\n" THEN consume(s, p + 1, ln + 1, 1, n - 1)
    ELSE consume(s, p + 1, ln, col + 1, n - 1)

\* An operator branch that classifies the prefix without consuming it.
lex_operator_peek(s, p, ln, col) ==
    LET chars == op_chars(s, p)
        len == op_match(chars, Len(chars))
    IN  Scanned(p, ln, col, Tok(find_match(SubSeq(chars, 1, len)), <<>>))

\* lexer.rs:246-282
lex_operator(s, p, ln, col) ==
    LET chars == op_chars(s, p)
        len == op_match(chars, Len(chars))
        r == consume(s, p, ln, col, len)
    IN  Scanned(r.pos, r.line, r.column, Tok(find_match(SubSeq(chars, 1, len)), <<>>))

\* An illegal branch that drops the rest of the text.
lex_illegal_abort(s, p, ln, col) ==
    Scanned(Len(s), ln, col + 1, Tok("Illegal", <<>>))

\* An illegal branch that forgets chars.next().
lex_illegal_stuck(s, p, ln, col) == Scanned(p, ln, col + 1, Tok("Illegal", <<>>))

\* lexer.rs:284-293
lex_illegal(s, p, ln, col) == Scanned(p + 1, ln, col + 1, Tok("Illegal", <<>>))

\* SpannedToken
Spanned(v, ln, col) == [value |-> v, line |-> ln, column |-> col]

\* One iteration of the main loop at cursor p < Len(s).
scan_step(s, p, ln, col) ==
    LET b == branch(s, p) IN
    CASE b = "newline" -> lex_newline(s, p, ln, col)
      [] b = "whitespace" -> lex_whitespace(s, p, ln, col)
      [] b = "line_comment" -> lex_line_comment(s, p, ln, col)
      [] b = "block_comment" -> lex_block_comment(s, p, ln, col)
      [] b = "string" -> lex_string(s, p, ln, col)
      [] b = "number" -> lex_number(s, p, ln, col)
      [] b = "identifier" -> lex_identifier(s, p, ln, col)
      [] b = "operator" -> lex_operator(s, p, ln, col)
      [] b = "illegal" -> lex_illegal(s, p, ln, col)

\* Lexer::lex as a function of the text: the main loop, then Eof.
RECURSIVE lex_loop(_, _, _, _, _)
lex_loop(s, p, ln, col, toks) ==
    IF p >= Len(s) THEN Append(toks, Spanned(Tok("Eof", <<>>), ln, col))
    ELSE LET r == scan_step(s, p, ln, col) IN
         lex_loop(s, r.pos, r.line, r.column,
                  Append(toks, Spanned(r.value, ln, col)))

lex(s) == lex_loop(s, 0, 1, 1, <<>>)

(***************************************************************************)
(* Renderer: tokens_to_source                                              *)
(***************************************************************************)
\* prev.chars().rev().find(|c| !c.is_whitespace())
RECURSIVE last_significant(_)
last_significant(frag) ==
    IF frag = <<>> THEN None
    ELSE IF ~is_whitespace(frag[Len(frag)]) THEN frag[Len(frag)]
    ELSE last_significant(SubSeq(frag, 1, Len(frag) - 1))

\* next.chars().find(|c| !c.is_whitespace())
RECURSIVE first_significant(_)
first_significant(frag) ==
    IF frag = <<>> THEN None
    ELSE IF ~is_whitespace(Head(frag)) THEN Head(frag)
    ELSE first_significant(Tail(frag))

\* needs_separator without its first early return: an accumulated output
\* that ends in whitespace is judged by its last non-whitespace character.
needs_separator_significant(prev_fragment, next_fragment) ==
    IF next_fragment # <<>> /\ is_whitespace(Head(next_fragment))
    THEN FALSE
    ELSE LET prev == last_significant(prev_fragment)
             next == first_significant(next_fragment)
         IN  IF prev # None /\ next # None
             THEN is_identifier_char(prev) /\ is_identifier_char(next)
             ELSE FALSE

\* token.rs: needs_separator
needs_separator(prev_fragment, next_fragment) ==
    IF prev_fragment # <<>> /\ is_whitespace(prev_fragment[Len(prev_fragment)])
    THEN FALSE
    ELSE IF next_fragment # <<>> /\ is_whitespace(Head(next_fragment))
    THEN FALSE
    ELSE LET prev == last_significant(prev_fragment)
             next == first_significant(next_fragment)
         IN  IF prev # None /\ next # None
             THEN is_identifier_char(prev) /\ is_identifier_char(next)
             ELSE FALSE

\* The closure without the separator: fragments are only concatenated.
render_token_concat(acc, token) ==
    LET fragment == token_fragment(token.value) IN
    IF fragment = None THEN acc ELSE acc \o fragment

\* The closure folded by tokens_to_source (token.rs:576-584).
render_token(acc, token) ==
    LET fragment == token_fragment(token.value) IN
    IF fragment = None THEN acc
    ELSE IF acc # <<>> /\ needs_separator(acc, fragment)
    THEN acc \o <<" ">> \o fragment
    ELSE acc \o fragment

RECURSIVE fold_tokens(_, _)
fold_tokens(acc, toks) ==
    IF toks = <<>> THEN acc
    ELSE fold_tokens(render_token(acc, Head(toks)), Tail(toks))

\* token.rs: tokens_to_source
tokens_to_source(toks) == fold_tokens(<<>>, toks)

(***************************************************************************)
(* Source texts                                                            *)
(***************************************************************************)
\* true false null undefined (lexer.rs:436)
SampleKeywords ==
    <<"t", "r", "u", "e", " ", "f", "a", "l", "s", "e", " ", "n", "u", "l",
      "l", " ", "u", "n", "d", "e", "f", "i", "n", "e", "d">>

\* <div>true</div> (lexer.rs:452)
SampleJsx ==
    <<"<", "d", "i", "v", ">", "t", "r", "u", "e", "<", "/", "d", "i", "v",
      ">">>

\* 123n (lexer.rs:331)
SampleBigInt ==
    <<"1", "2", "3", "n">>

\*  \nfoo (lexer.rs:340)
SamplePosition ==
    <<" ", "\n", "f", "o", "o">>

\* constX (spec section 8)
SampleConstX ==
    <<"c", "o", "n", "s", "t", "X">>

\* const x (spec section 8)
SampleConst ==
    <<"c", "o", "n", "s", "t", " ", "x">>

\* /* a /* b */ c */ (spec section 8)
SampleNested ==
    <<"/", "*", " ", "a", " ", "/", "*", " ", "b", " ", "*", "/", " ", "c",
      " ", "*", "/">>

\* var x = "s" + 5; (after lexer.rs:376)
SampleStatement ==
    <<"v", "a", "r", " ", "x", " ", "=", " ", "\"", "s", "\"", " ", "+",
      " ", "5", ";">>

\* /**/a
SampleAfterComment ==
    <<"/", "*", "*", "/", "a">>

\* /*/**/a: the inner comment is closed, the outer one is not
SampleUnclosed ==
    <<"/", "*", "/", "*", "*", "/", "a">>

\* "\"\n\\"a: a double-quoted literal of three escapes, then a
SampleEscapes ==
    <<"\"", "\\", "\"", "\\", "n", "\\", "\\", "\"", "a">>

Samples ==
    {SampleKeywords,
     SampleEscapes,
     SampleUnclosed,
     SampleAfterComment,
     SampleJsx,
     SampleBigInt,
     SamplePosition,
     SampleConstX,
     SampleConst,
     SampleNested,
     SampleStatement}

\* Code points of the generated source texts.
Alphabet ==
    {" ", "\n", "/", "*", "\"", "'", "\\", "1", ".", "n", "a", "s", "=", ">", "@"}

Texts(n) == UNION {[1..k -> Alphabet] : k \in 0..n}

Sources == Texts(MaxLen) \cup Samples

(***************************************************************************)
(* State machine                                                           *)
(*                                                                         *)
(* starts is a history variable: starts[i] is the cursor at which the      *)
(* iteration that pushed tokens[i] began.                                  *)
(***************************************************************************)
\* No use of the catalog on its own is under way.
CatalogIdle ==
    /\ cat_pc = "idle"
    /\ cat_kind = None
    /\ cat_text = None
    /\ cat_result = None

\* No rendering of hand-built tokens is under way.
HandIdle ==
    /\ hand_tokens = <<>>
    /\ hand_index = 0
    /\ hand_acc = <<>>
    /\ hand_pc = "idle"
    /\ hand_rescan = <<>>

\* HashMap::default()
EmptyMap == [uri \in {} |-> None]

\* The server has handled no notification.
ServerIdle ==
    /\ documents = EmptyMap
    /\ delivered = <<>>

\* No handler is running and the mutex is free.
TasksIdle ==
    /\ handlers = <<>>
    /\ locked = FALSE
    /\ lock_order = <<>>

Init ==
    /\ source \in Sources
    /\ pos = 0
    /\ line = 1
    /\ column = 1
    /\ tokens = <<>>
    /\ starts = <<>>
    /\ pc = "lex"
    /\ rendered = <<>>
    /\ CatalogIdle
    /\ HandIdle
    /\ ServerIdle
    /\ TasksIdle

\* One iteration of the main loop: push the token at the position the
\* iteration started at and move the cursor.
Push(r) ==
    /\ tokens' = Append(tokens, Spanned(r.value, line, column))
    /\ starts' = Append(starts, pos)
    /\ pos' = r.pos
    /\ line' = r.line
    /\ column' = r.column
    /\ UNCHANGED <<source, pc, rendered>>
    /\ UNCHANGED <<catVars, handVars, serverVars, taskVars>>

InLoop == pc = "lex" /\ pos < Len(source)

LexNewLine ==
    /\ InLoop /\ branch(source, pos) = "newline"
    /\ Push(lex_newline(source, pos, line, column))

LexWhitespace ==
    /\ InLoop /\ branch(source, pos) = "whitespace"
    /\ Push(lex_whitespace(source, pos, line, column))

LexLineComment ==
    /\ InLoop /\ branch(source, pos) = "line_comment"
    /\ Push(lex_line_comment(source, pos, line, column))

LexBlockComment ==
    /\ InLoop /\ branch(source, pos) = "block_comment"
    /\ Push(lex_block_comment(source, pos, line, column))

LexString ==
    /\ InLoop /\ branch(source, pos) = "string"
    /\ Push(lex_string(source, pos, line, column))

LexNumber ==
    /\ InLoop /\ branch(source, pos) = "number"
    /\ Push(lex_number(source, pos, line, column))

LexIdentifier ==
    /\ InLoop /\ branch(source, pos) = "identifier"
    /\ Push(lex_identifier(source, pos, line, column))

LexOperator ==
    /\ InLoop /\ branch(source, pos) = "operator"
    /\ Push(lex_operator(source, pos, line, column))

LexIllegal ==
    /\ InLoop /\ branch(source, pos) = "illegal"
    /\ Push(lex_illegal(source, pos, line, column))

\* A return without the push of Eof.
LexEofNoPush ==
    /\ pc = "lex" /\ pos >= Len(source)
    /\ pc' = "done"
    /\ UNCHANGED <<source, pos, line, column, tokens, starts, rendered>>
    /\ UNCHANGED <<catVars, handVars, serverVars, taskVars>>

\* lexer.rs:296-303: the loop is over, push Eof and return the tokens.
LexEof ==
    /\ pc = "lex" /\ pos >= Len(source)
    /\ tokens' = Append(tokens, Spanned(Tok("Eof", <<>>), line, column))
    /\ starts' = Append(starts, pos)
    /\ pc' = "done"
    /\ UNCHANGED <<source, pos, line, column, rendered>>
    /\ UNCHANGED <<catVars, handVars, serverVars, taskVars>>

\* render(&tokens) of the tests: tokens_to_source on the returned list.
Render ==
    /\ pc = "done"
    /\ rendered' = tokens_to_source(tokens)
    /\ pc' = "rendered"
    /\ UNCHANGED <<source, pos, line, column, tokens, starts>>
    /\ UNCHANGED <<catVars, handVars, serverVars, taskVars>>

Next ==
    \/ LexNewLine
    \/ LexWhitespace
    \/ LexLineComment
    \/ LexBlockComment
    \/ LexString
    \/ LexNumber
    \/ LexIdentifier
    \/ LexOperator
    \/ LexIllegal
    \/ LexEof
    \/ Render

Spec == Init /\ [][Next]_vars

TypeOK ==
    /\ source \in Sources
    /\ pos \in 0..Len(source)
    /\ line \in 1..(Len(source) + 1)
    /\ column \in 1..(Len(source) + 1)
    /\ Len(starts) = Len(tokens)
    /\ pc \in {"lex", "done", "rendered"}

(***************************************************************************)
(* The catalog on its own: find_match and token_fragment, one after the    *)
(* other, in both orders                                                   *)
(***************************************************************************)
\* The punctuator, operator and keyword variants of Token (token.rs:39-194).
CatalogKinds ==
    {"Comma", "Semicolon", "Colon", "Dot", "OpenParen", "CloseParen",
     "OpenBrace", "CloseBrace", "OpenBracket", "CloseBracket", "DotDotDot",
     "QuestionDot", "LessThan", "LessThanSlash", "GreaterThan",
     "LessThanEquals", "GreaterThanEquals", "EqualsEquals",
     "ExclamationEquals", "EqualsEqualsEquals", "ExclamationEqualsEquals",
     "EqualsGreaterThan", "Plus", "Minus", "Asterisk", "AsteriskAsterisk",
     "Slash", "Percent", "PlusPlus", "MinusMinus", "LessThanLessThan",
     "GreaterThanGreaterThan", "GreaterThanGreaterThanGreaterThan",
     "Ampersand", "Bar", "Caret", "Bang", "Tilde", "AmpersandAmpersand",
     "BarBar", "Question", "At", "QuestionQuestion", "Hash", "Equals",
     "PlusEquals", "MinusEquals", "AsteriskEquals",
     "AsteriskAsteriskEquals", "SlashEquals", "PercentEquals",
     "LessThanLessThanEquals", "GreaterThanGreaterThanEquals",
     "GreaterThanGreaterThanGreaterThanEquals", "AmpersandEquals",
     "BarEquals", "CaretEquals", "BarBarEquals",
     "AmpersandAmpersandEquals", "QuestionQuestionEquals", "Break", "Case",
     "Catch", "Class", "Const", "Continue", "Debugger", "Default",
     "Delete", "Do", "Else", "Enum", "Export", "Extends", "False",
     "Finally", "For", "Function", "If", "Import", "In", "InstanceOf",
     "New", "Null", "Return", "Super", "Switch", "This", "Throw", "True",
     "Try", "TypeOf", "Var", "Void", "While", "With", "Implements",
     "Interface", "Let", "Package", "Private", "Protected", "Public",
     "Static", "Yield", "Abstract", "As", "Asserts", "Any", "Async",
     "Await", "Boolean", "Constructor", "Declare", "Get", "Infer", "Is",
     "KeyOf", "Module", "Namespace", "Never", "Readonly", "Require",
     "Number", "Object", "Set", "String", "Symbol", "Type", "Undefined",
     "Unique", "Unknown", "From", "Global", "BigInt", "Of", "Satisfies",
     "Override", "Using"}

\* Texts given to find_match: every spelling token_fragment has for a
\* catalog kind, the generated texts and the samples.
CatalogTexts ==
    {fixed_fragment(k) : k \in CatalogKinds} \cup Texts(MaxLen) \cup Samples

\* No scan is under way.
ScannerIdle ==
    /\ source = <<>>
    /\ pos = 0
    /\ line = 1
    /\ column = 1
    /\ tokens = <<>>
    /\ starts = <<>>
    /\ pc = "idle"
    /\ rendered = <<>>

CatalogInit ==
    /\ ScannerIdle
    /\ HandIdle
    /\ ServerIdle
    /\ TasksIdle
    /\ cat_result = None
    /\ \/ cat_pc = "kind" /\ cat_kind \in CatalogKinds /\ cat_text = None
       \/ cat_pc = "text" /\ cat_text \in CatalogTexts /\ cat_kind = None

\* token_fragment(&kind)
SpellKind ==
    /\ cat_pc = "kind"
    /\ cat_text' = token_fragment(Tok(cat_kind, <<>>))
    /\ cat_pc' = "spelled"
    /\ UNCHANGED <<cat_kind, cat_result, scanVars, handVars, serverVars, taskVars>>

\* find_match of the fragment
ClassifySpelling ==
    /\ cat_pc = "spelled"
    /\ cat_result' = find_match(cat_text)
    /\ cat_pc' = "kind_done"
    /\ UNCHANGED <<cat_kind, cat_text, scanVars, handVars, serverVars, taskVars>>

\* find_match(text)
ClassifyText ==
    /\ cat_pc = "text"
    /\ cat_kind' = find_match(cat_text)
    /\ cat_pc' = "classified"
    /\ UNCHANGED <<cat_text, cat_result, scanVars, handVars, serverVars, taskVars>>

\* token_fragment of the kind found
SpellResult ==
    /\ cat_pc = "classified" /\ cat_kind # None
    /\ cat_result' = token_fragment(Tok(cat_kind, <<>>))
    /\ cat_pc' = "text_done"
    /\ UNCHANGED <<cat_kind, cat_text, scanVars, handVars, serverVars, taskVars>>

CatalogNext ==
    \/ SpellKind
    \/ ClassifySpelling
    \/ ClassifyText
    \/ SpellResult

CatalogSpec == CatalogInit /\ [][CatalogNext]_vars

(***************************************************************************)
(* tokens_to_source on token sequences built by hand, and the scan of its  *)
(* output                                                                  *)
(***************************************************************************)
MaxToks == 3

MaxValueLen == 2

\* Token values a hand-built sequence draws from; trivia carry no payload,
\* as in token.rs.
HandValues ==
    {Tok("Identifier", <<"a">>), Tok("NumericLiteral", <<"1">>),
     Tok("Plus", <<>>), Tok("Equals", <<>>),
     Tok("WhitespaceTrivia", <<>>), Tok("NewLineTrivia", <<>>),
     Tok("Eof", <<>>),
     Tok("JsxText", <<" ", "a">>), Tok("JsxText", <<>>)}

\* The fold does not read line and column.
HandSequences(n) ==
    UNION {[1..k -> {Spanned(v, 1, 1) : v \in HandValues}] : k \in 0..n}

\* token.rs: tests::renders_identifier_numeric_and_operator
TestFooPlus42 ==
    <<Spanned(Tok("Identifier", <<"f", "o", "o">>), 1, 1),
      Spanned(Tok("Plus", <<>>), 1, 4),
      Spanned(Tok("NumericLiteral", <<"4", "2">>), 1, 5),
      Spanned(Tok("Eof", <<>>), 1, 7)>>

\* token.rs: tests::emits_whitespace_token_verbatim
TestLetX ==
    <<Spanned(Tok("Identifier", <<"l", "e", "t">>), 1, 1),
      Spanned(Tok("WhitespaceTrivia", <<>>), 1, 4),
      Spanned(Tok("Identifier", <<"x">>), 1, 5),
      Spanned(Tok("Equals", <<>>), 1, 6),
      Spanned(Tok("NumericLiteral", <<"1">>), 1, 7)>>

\* token.rs: tests::separates_adjacent_identifiers
TestFooBar ==
    <<Spanned(Tok("Identifier", <<"f", "o", "o">>), 1, 1),
      Spanned(Tok("Identifier", <<"b", "a", "r">>), 1, 5)>>

\* Code points of string payloads: a letter, the characters the scanner
\* resolves escapes to, the quotes, the backslash, and form feed (U+000C).
ValueAlphabet == {"a", "n", "\n", "\t", "\r", "\"", "'", "\\", "\f"}

StringValues == UNION {[1..k -> ValueAlphabet] : k \in 0..MaxValueLen}

HandInputs ==
    HandSequences(MaxToks)
    \cup {TestFooPlus42, TestLetX, TestFooBar}
    \cup {<<Spanned(Tok("StringLiteral", v), 1, 1)>> : v \in StringValues}
    \cup {lex(s) : s \in Samples}

RenderInit ==
    /\ ScannerIdle
    /\ CatalogIdle
    /\ ServerIdle
    /\ TasksIdle
    /\ hand_tokens \in HandInputs
    /\ hand_index = 0
    /\ hand_acc = <<>>
    /\ hand_pc = "fold"
    /\ hand_rescan = <<>>

\* One turn of the fold's closure.
FoldToken ==
    /\ hand_pc = "fold" /\ hand_index < Len(hand_tokens)
    /\ hand_acc' = render_token(hand_acc, hand_tokens[hand_index + 1])
    /\ hand_index' = hand_index + 1
    /\ UNCHANGED <<hand_tokens, hand_pc, hand_rescan>>
    /\ UNCHANGED <<scanVars, catVars, serverVars, taskVars>>

\* The iterator is exhausted: the fold returns the accumulated output.
FoldReturn ==
    /\ hand_pc = "fold" /\ hand_index = Len(hand_tokens)
    /\ hand_pc' = "rendered"
    /\ UNCHANGED <<hand_tokens, hand_index, hand_acc, hand_rescan>>
    /\ UNCHANGED <<scanVars, catVars, serverVars, taskVars>>

\* Lexer::new(&rendered).lex()
Rescan ==
    /\ hand_pc = "rendered"
    /\ hand_rescan' = lex(hand_acc)
    /\ hand_pc' = "rescanned"
    /\ UNCHANGED <<hand_tokens, hand_index, hand_acc>>
    /\ UNCHANGED <<scanVars, catVars, serverVars, taskVars>>

RenderNext ==
    \/ FoldToken
    \/ FoldReturn
    \/ Rescan

RenderSpec == RenderInit /\ [][RenderNext]_vars

(***************************************************************************)
(* Protocol server: the document map under the text document notifications *)
(*                                                                         *)
(* A handler takes the lock before it touches the map and holds it to its  *)
(* end, so each handler is one step. delivered is a history variable: the  *)
(* notifications handled so far, each with the texts it carried.           *)
(***************************************************************************)
MaxNotes == 3

MaxChanges == 2

Uris == {"file:///a.ts", "file:///b.ts"}

DocTexts == {"let x", "let y"}

\* The content_changes a didChange can carry.
ChangeLists == UNION {[1..k -> DocTexts] : k \in 0..MaxChanges}

\* HashMap::insert
insert(map, key, value) ==
    [k \in DOMAIN map \cup {key} |-> IF k = key THEN value ELSE map[k]]

\* HashMap::remove
remove(map, key) == [k \in DOMAIN map \ {key} |-> map[k]]

Note(method, uri, texts) == [method |-> method, uri |-> uri, texts |-> texts]

Handled(method, uri, texts) ==
    /\ Len(delivered) < MaxNotes
    /\ delivered' = Append(delivered, Note(method, uri, texts))
    /\ UNCHANGED <<scanVars, catVars, handVars, taskVars>>

\* server.rs: Backend::did_open
did_open(uri, text) ==
    /\ documents' = insert(documents, uri, text)
    /\ Handled("didOpen", uri, <<text>>)

\* did_change taking the first content change instead of the last.
did_change_first(uri, content_changes) ==
    /\ documents' = IF content_changes # <<>>
                    THEN insert(documents, uri, content_changes[1])
                    ELSE documents
    /\ Handled("didChange", uri, content_changes)

\* server.rs: Backend::did_change
did_change(uri, content_changes) ==
    /\ documents' = IF content_changes # <<>>
                    THEN insert(documents, uri,
                                content_changes[Len(content_changes)])
                    ELSE documents
    /\ Handled("didChange", uri, content_changes)

\* server.rs: Backend::did_save
did_save(uri) ==
    /\ UNCHANGED documents
    /\ Handled("didSave", uri, <<>>)

\* server.rs: Backend::did_close
did_close(uri) ==
    /\ documents' = remove(documents, uri)
    /\ Handled("didClose", uri, <<>>)

ServerInit ==
    /\ ScannerIdle
    /\ CatalogIdle
    /\ HandIdle
    /\ ServerIdle
    /\ TasksIdle

DidOpen == \E uri \in Uris, text \in DocTexts : did_open(uri, text)

DidChange ==
    \E uri \in Uris, content_changes \in ChangeLists :
        did_change(uri, content_changes)

DidSave == \E uri \in Uris : did_save(uri)

DidClose == \E uri \in Uris : did_close(uri)

ServerNext ==
    \/ DidOpen
    \/ DidChange
    \/ DidSave
    \/ DidClose

ServerSpec == ServerInit /\ [][ServerNext]_vars

(***************************************************************************)
(* Protocol server: handlers running at the same time                      *)
(*                                                                         *)
(* A handler that touches the map awaits the state mutex, updates the map, *)
(* and keeps the guard until it returns, after the log message.  The       *)
(* handlers of didSave, hover and completion never take the mutex.         *)
(***************************************************************************)
MaxTasks == 2

Tasks == 1..MaxTasks

\* What the handlers running together were called with.
TaskNotes ==
    {Note("didOpen", uri, <<text>>) : uri \in Uris, text \in DocTexts}
    \cup {Note("didChange", uri, changes) :
              uri \in Uris,
              changes \in {<<>>, <<"let x">>, <<"let x", "let y">>}}
    \cup {Note(method, uri, <<>>) :
              method \in {"didSave", "didClose"}, uri \in Uris}
    \cup {Note(method, "file:///a.ts", <<>>) :
              method \in {"hover", "completion"}}

\* The handlers that lock the state.
Locking == {"didOpen", "didChange", "didClose"}

\* What a handler does to the map while it holds the guard.
handler_update(map, note) ==
    CASE note.method = "didOpen" -> insert(map, note.uri, note.texts[1])
      [] note.method = "didChange" ->
            IF note.texts # <<>>
            THEN insert(map, note.uri, note.texts[Len(note.texts)])
            ELSE map
      [] note.method = "didClose" -> remove(map, note.uri)
      [] OTHER -> map

At(t, position) == [handlers EXCEPT ![t].pc = position]

ConcurrentInit ==
    /\ ScannerIdle
    /\ CatalogIdle
    /\ HandIdle
    /\ ServerIdle
    /\ handlers \in [Tasks -> {[note |-> n, pc |-> "start"] : n \in TaskNotes}]
    /\ locked = FALSE
    /\ lock_order = <<>>

\* A lock() that does not wait for the mutex to be free.
LockUnguarded(t) ==
    /\ handlers[t].pc = "start"
    /\ handlers[t].note.method \in Locking
    /\ locked' = TRUE
    /\ handlers' = At(t, "locked")
    /\ lock_order' = Append(lock_order, t)
    /\ UNCHANGED <<scanVars, catVars, handVars, serverVars>>

\* self.state.lock().await completes
Lock(t) ==
    /\ handlers[t].pc = "start"
    /\ handlers[t].note.method \in Locking
    /\ ~locked
    /\ locked' = TRUE
    /\ handlers' = At(t, "locked")
    /\ lock_order' = Append(lock_order, t)
    /\ UNCHANGED <<scanVars, catVars, handVars, serverVars>>

\* state.documents.insert / remove, or the warning of an empty didChange
Update(t) ==
    /\ handlers[t].pc = "locked"
    /\ documents' = handler_update(documents, handlers[t].note)
    /\ handlers' = At(t, "updated")
    /\ UNCHANGED <<locked, lock_order, delivered>>
    /\ UNCHANGED <<scanVars, catVars, handVars>>

\* The handler returns after its log message: the guard is dropped.
Unlock(t) ==
    /\ handlers[t].pc = "updated"
    /\ locked' = FALSE
    /\ handlers' = At(t, "done")
    /\ UNCHANGED lock_order
    /\ UNCHANGED <<scanVars, catVars, handVars, serverVars>>

\* did_save, hover, completion: they log and return.
Lockless(t) ==
    /\ handlers[t].pc = "start"
    /\ handlers[t].note.method \notin Locking
    /\ handlers' = At(t, "done")
    /\ UNCHANGED <<locked, lock_order>>
    /\ UNCHANGED <<scanVars, catVars, handVars, serverVars>>

ConcurrentNext ==
    \/ \E t \in Tasks : Lock(t)
    \/ \E t \in Tasks : Update(t)
    \/ \E t \in Tasks : Unlock(t)
    \/ \E t \in Tasks : Lockless(t)

ConcurrentSpec == ConcurrentInit /\ [][ConcurrentNext]_vars

(***************************************************************************)
(* Vocabulary of the properties                                            *)
(***************************************************************************)
Finished == pc \in {"done", "rendered"}

Kinds(toks) == [i \in 1..Len(toks) |-> toks[i].value.kind]

\* Cursor after the iteration that pushed tokens[i].
TokEnd(i) == IF i < Len(tokens) THEN starts[i + 1] ELSE pos

\* Source text covered by tokens[i].
Covered(i) == SubSeq(source, starts[i] + 1, TokEnd(i))

Max(S) == CHOOSE x \in S : \A y \in S : y <= x

\* Number of newline characters among the first p code points of s.
NewlinesBefore(s, p) == Cardinality({j \in 1..p : s[j] = "\n"})

\* Index of the last newline among the first p code points of s, 0 if none.
LastNewline(s, p) == Max({0} \cup {j \in 1..p : s[j] = "\n"})

\* C1: rendering the tokens scanned from a text without illegal characters
\* gives the text back.
RoundTrip ==
    (pc = "rendered" /\ \A i \in 1..Len(tokens) : tokens[i].value.kind # "Illegal")
        => rendered = source

\* C2: the returned token list has exactly one Eof token, in last place.
OneEofLast ==
    Finished =>
        /\ Len(tokens) >= 1
        /\ {i \in 1..Len(tokens) : tokens[i].value.kind = "Eof"} = {Len(tokens)}

EmptyInputScanned ==
    /\ pc = "done" /\ source = <<>>
    /\ tokens = <<Spanned(Tok("Eof", <<>>), 1, 1)>>

\* C3: the column of every token is 1 plus the number of code points
\* between the nearest preceding newline (or the start) and the token.
ColumnBookkeeping ==
    \A i \in 1..Len(tokens) :
        tokens[i].column = 1 + (starts[i] - LastNewline(source, starts[i]))

\* C4: the line of every token is 1 plus the number of newlines before it,
\* and a token right after a newline is in column 1.
LineBookkeeping ==
    \A i \in 1..Len(tokens) :
        /\ tokens[i].line = 1 + NewlinesBefore(source, starts[i])
        /\ (starts[i] > 0 /\ source[starts[i]] = "\n") => tokens[i].column = 1

\* C5: every iteration of the main loop consumes at least one code point
\* and never moves the cursor past the end of the text, and at the end of
\* the text the next step returns; so the scan of a text of n code points
\* returns after at most n iterations, whatever the text.
TotalScan ==
    [][pc = "lex" =>
          \/ pos < pos' /\ pos' <= Len(source) /\ pc' = "lex"
          \/ pos = Len(source) /\ pc' = "done"]_vars

MalformedInputScanned ==
    /\ pc = "done" /\ source = <<"\"", "\\">>
    /\ Kinds(tokens) = <<"StringLiteral", "Eof">>

\* The claim's operator position: the current character is not whitespace,
\* a comment start, a quote, a digit or an identifier start.
OperatorPosition(s, p) ==
    /\ p < Len(s)
    /\ ~is_whitespace(s[p + 1])
    /\ ~(s[p + 1] = "/" /\ p + 1 < Len(s) /\ s[p + 2] \in {"/", "*"})
    /\ s[p + 1] \notin {"\"", "'"}
    /\ ~is_ascii_digit(s[p + 1])
    /\ ~is_identifier_start(s[p + 1])

\* Lengths 1 to 4 of the prefixes of s at p that the catalog knows.
KnownPrefixes(s, p) ==
    {n \in 1..4 : p + n <= Len(s) /\ find_match(SubSeq(s, p + 1, p + n)) # None}

\* C6: a token that starts at an operator position where some prefix is a
\* lexeme has the kind of the longest such prefix and covers exactly it.
LongestMatch ==
    \A i \in 1..Len(tokens) :
        (OperatorPosition(source, starts[i]) /\ KnownPrefixes(source, starts[i]) # {})
            => LET n == Max(KnownPrefixes(source, starts[i])) IN
               /\ tokens[i].value =
                      Tok(find_match(SubSeq(source, starts[i] + 1, starts[i] + n)), <<>>)
               /\ TokEnd(i) = starts[i] + n

PowerAssignScanned ==
    /\ pc = "done" /\ source = <<"*", "*", "=">>
    /\ Kinds(tokens) = <<"AsteriskAsteriskEquals", "Eof">>

\* C7: the spelling of every catalog kind is classified as that kind, and
\* the kind of every classified text is spelled as that text.
CatalogBothWays ==
    /\ cat_pc = "kind_done" => cat_result = cat_kind
    /\ cat_pc = "text_done" => cat_result = cat_text

\* End of the maximal run of identifier characters of s that starts after
\* the first p code points.
RunEnd(s, p) ==
    Max({e \in p..Len(s) : \A j \in (p + 1)..e : is_identifier_part(s[j])})

\* C8: a token that starts at an identifier start covers the whole maximal
\* identifier run and is the keyword find_match gives for the run, or else
\* Identifier with the run as payload; const is a keyword, constX is not.
KeywordOrIdentifier ==
    /\ \A i \in 1..Len(tokens) :
           (starts[i] < Len(source) /\ is_identifier_start(source[starts[i] + 1])) =>
               LET run == SubSeq(source, starts[i] + 1, RunEnd(source, starts[i])) IN
               /\ Covered(i) = run
               /\ tokens[i].value =
                      IF find_match(run) # None
                      THEN Tok(find_match(run), <<>>)
                      ELSE Tok("Identifier", run)
    /\ find_match(<<"c", "o", "n", "s", "t">>) = "Const"
    /\ find_match(SampleConstX) = None

ConstXScanned ==
    /\ pc = "done" /\ source = SampleConstX
    /\ tokens = <<Spanned(Tok("Identifier", SampleConstX), 1, 1),
                  Spanned(Tok("Eof", <<>>), 1, 7)>>

\* The keyword kind of the four literal words.
LiteralWordKind(w) ==
    CASE w = <<"t", "r", "u", "e">> -> "True"
      [] w = <<"f", "a", "l", "s", "e">> -> "False"
      [] w = <<"n", "u", "l", "l">> -> "Null"
      [] w = <<"u", "n", "d", "e", "f", "i", "n", "e", "d">> -> "Undefined"
      [] OTHER -> None

\* C9: a whole identifier run true, false, null or undefined is scanned as
\* True, False, Null or Undefined; the text of the test gives True,
\* WhitespaceTrivia, False, WhitespaceTrivia, Null, WhitespaceTrivia,
\* Undefined, Eof and renders back to itself.
LiteralWordsAreKeywords ==
    /\ \A i \in 1..Len(tokens) :
           (starts[i] < Len(source)
                /\ is_identifier_start(source[starts[i] + 1])
                /\ LiteralWordKind(Covered(i)) # None)
               => tokens[i].value.kind = LiteralWordKind(Covered(i))
    /\ (Finished /\ source = SampleKeywords) =>
           Kinds(tokens) = <<"True", "WhitespaceTrivia", "False", "WhitespaceTrivia",
                             "Null", "WhitespaceTrivia", "Undefined", "Eof">>
    /\ (pc = "rendered" /\ source = SampleKeywords) => rendered = source

\* C10: the characters </ at the start of a token are one LessThanSlash
\* token; the text of the test gives LessThan, Identifier(div),
\* GreaterThan, True, LessThanSlash, Identifier(div), GreaterThan, Eof and
\* renders back to itself.
LessThanSlashIsOneToken ==
    /\ \A i \in 1..Len(tokens) :
           (starts[i] + 2 <= Len(source)
                /\ SubSeq(source, starts[i] + 1, starts[i] + 2) = <<"<", "/">>)
               => /\ tokens[i].value = Tok("LessThanSlash", <<>>)
                  /\ TokEnd(i) = starts[i] + 2
    /\ (Finished /\ source = SampleJsx) =>
           [i \in 1..Len(tokens) |-> tokens[i].value] =
               <<Tok("LessThan", <<>>), Tok("Identifier", <<"d", "i", "v">>),
                 Tok("GreaterThan", <<>>), Tok("True", <<>>),
                 Tok("LessThanSlash", <<>>), Tok("Identifier", <<"d", "i", "v">>),
                 Tok("GreaterThan", <<>>), Tok("Eof", <<>>)>>
    /\ (pc = "rendered" /\ source = SampleJsx) => rendered = source

\* The two code points of s after the first q.
Pair(s, q) == IF q + 2 <= Len(s) THEN SubSeq(s, q + 1, q + 2) ELSE <<>>

\* Where a comment that is at depth d after the first q code points of s
\* ends: each */ takes 1 from the depth, each /* adds 1, and the end is
\* after the */ that brings the depth to 0, or else the end of s.
RECURSIVE NestedEnd(_, _, _)
NestedEnd(s, q, d) ==
    IF q >= Len(s) THEN Len(s)
    ELSE IF Pair(s, q) = <<"*", "/">>
         THEN (IF d = 1 THEN q + 2 ELSE NestedEnd(s, q + 2, d - 1))
    ELSE IF Pair(s, q) = <<"/", "*">> THEN NestedEnd(s, q + 2, d + 1)
    ELSE NestedEnd(s, q + 1, d)

\* C11: a token that starts at /* is one MultiLineCommentTrivia token that
\* ends where the nesting depth, 1 after the opening /*, comes back to 0, or
\* at the end of the text, and its payload is the text it covers; the nested
\* sample is one comment token over the whole text, then Eof.
NestedComment ==
    /\ \A i \in 1..Len(tokens) :
           Pair(source, starts[i]) = <<"/", "*">> =>
               /\ tokens[i].value.kind = "MultiLineCommentTrivia"
               /\ TokEnd(i) = NestedEnd(source, starts[i] + 2, 1)
               /\ tokens[i].value.text = Covered(i)
    /\ \A i \in 1..Len(tokens) :
           tokens[i].value.kind = "MultiLineCommentTrivia" =>
               Pair(source, starts[i]) = <<"/", "*">>
    /\ (Finished /\ source = SampleNested) =>
           [i \in 1..Len(tokens) |-> tokens[i].value] =
               <<Tok("MultiLineCommentTrivia", SampleNested), Tok("Eof", <<>>)>>

NestedCommentScanned ==
    /\ pc = "done" /\ source = SampleNested
    /\ Len(tokens) = 2
    /\ tokens[1].value = Tok("MultiLineCommentTrivia", SampleNested)
    /\ tokens[2].value.kind = "Eof"

\* End of the maximal run of ASCII digits of s that starts after the first
\* p code points.
DigitsEnd(s, p) ==
    Max({e \in p..Len(s) : \A j \in (p + 1)..e : is_ascii_digit(s[j])})

Contains(t, c) == \E j \in 1..Len(t) : t[j] = c

\* C12: a token that starts at a digit whose maximal run of digits is
\* directly followed by n is one BigIntLiteral with the digits as payload
\* and covers the digits and the n; 123n gives BigIntLiteral(123) and Eof
\* at column 5; no NumericLiteral or BigIntLiteral payload contains an n.
BigIntPayload ==
    /\ \A i \in 1..Len(tokens) :
           (starts[i] < Len(source) /\ is_ascii_digit(source[starts[i] + 1])) =>
               LET e == DigitsEnd(source, starts[i]) IN
               (e < Len(source) /\ source[e + 1] = "n") =>
                   /\ tokens[i].value =
                          Tok("BigIntLiteral", SubSeq(source, starts[i] + 1, e))
                   /\ TokEnd(i) = e + 1
    /\ \A i \in 1..Len(tokens) :
           tokens[i].value.kind \in {"NumericLiteral", "BigIntLiteral"} =>
               ~Contains(tokens[i].value.text, "n")
    /\ (Finished /\ source = SampleBigInt) =>
           tokens = <<Spanned(Tok("BigIntLiteral", <<"1", "2", "3">>), 1, 1),
                      Spanned(Tok("Eof", <<>>), 1, 5)>>

BigIntScanned ==
    /\ pc = "done" /\ source = SampleBigInt
    /\ tokens = <<Spanned(Tok("BigIntLiteral", <<"1", "2", "3">>), 1, 1),
                  Spanned(Tok("Eof", <<>>), 1, 5)>>

\* Token starts where the claim's case of an unknown character holds: an
\* operator position none of whose prefixes of length 1 to 4 is a lexeme.
Unmatched(i) ==
    /\ OperatorPosition(source, starts[i])
    /\ KnownPrefixes(source, starts[i]) = {}

\* C17: a token that starts at an unknown character is one Illegal token
\* that covers exactly that code point, the scan goes on after it to the
\* end of the text, and there are no other Illegal tokens.
IllegalCharacter ==
    /\ \A i \in 1..Len(tokens) :
           Unmatched(i) <=> tokens[i].value.kind = "Illegal"
    /\ \A i \in 1..Len(tokens) :
           tokens[i].value.kind = "Illegal" =>
               /\ tokens[i].value.text = <<>>
               /\ TokEnd(i) = starts[i] + 1
    /\ Finished => pos = Len(source)
    /\ Cardinality({i \in 1..Len(tokens) : tokens[i].value.kind = "Illegal"})
           = Cardinality({q \in {starts[i] : i \in 1..Len(tokens)} :
                             /\ OperatorPosition(source, q)
                             /\ KnownPrefixes(source, q) = {}})

IllegalThenIdentifier ==
    /\ pc = "done" /\ source = <<"@", "a", "@">>
    /\ Kinds(tokens) = <<"Illegal", "Identifier", "Illegal", "Eof">>

\* Number of dots among the code points p + 1 .. e of s.
Dots(s, p, e) == Cardinality({j \in (p + 1)..e : s[j] = "."})

\* End of the maximal run of ASCII digits with at most one dot that starts
\* after the first p code points of s.
NumberEnd(s, p) ==
    Max({e \in p..Len(s) :
            /\ \A j \in (p + 1)..e : is_ascii_digit(s[j]) \/ s[j] = "."
            /\ Dots(s, p, e) <= 1})

\* The token of a numeric literal that starts after the first p code points
\* of s and the cursor after it, when an n directly after the run makes it
\* a BigIntLiteral exactly if suffix(run) holds.
NumberToken(s, p, suffix(_)) ==
    LET e == NumberEnd(s, p)
        run == SubSeq(s, p + 1, e)
    IN  IF e < Len(s) /\ s[e + 1] = "n" /\ suffix(run)
        THEN [value |-> Tok("BigIntLiteral", run), end |-> e + 1]
        ELSE [value |-> Tok("NumericLiteral", run), end |-> e]

AnyRun(run) == TRUE

NoDot(run) == ~Contains(run, ".")

NumberTokens(suffix(_)) ==
    \A i \in 1..Len(tokens) :
        (starts[i] < Len(source) /\ is_ascii_digit(source[starts[i] + 1])) =>
            /\ tokens[i].value = NumberToken(source, starts[i], suffix).value
            /\ TokEnd(i) = NumberToken(source, starts[i], suffix).end

\* C18 as claimed: a numeric literal covers the maximal run of digits with
\* at most one dot, and an n directly after the run, with or without a dot
\* in the run, is consumed and makes the token a BigIntLiteral.
NumericRunAnySuffix == NumberTokens(AnyRun)

\* C18 as amended: a numeric literal covers the maximal run of digits with
\* at most one dot; an n directly after a run without a dot is consumed and
\* makes the token a BigIntLiteral with the run as payload; an n after a
\* run with a dot is not consumed and begins the next token.
NumericRunNoDotSuffix ==
    /\ NumberTokens(NoDot)
    /\ \A i \in 1..Len(tokens) :
           tokens[i].value.kind = "BigIntLiteral" => NoDot(tokens[i].value.text)

DotThenN ==
    /\ pc = "done" /\ source = <<"1", ".", "n">>
    /\ [i \in 1..Len(tokens) |-> tokens[i].value] =
           <<Tok("NumericLiteral", <<"1", ".">>), Tok("Identifier", <<"n">>),
             Tok("Eof", <<>>)>>

Min(S) == CHOOSE x \in S : \A y \in S : x <= y

\* Number of backslashes of s directly before index j, none of them at or
\* before index b (the opening quote).
BackslashRun(s, b, j) ==
    Max({k \in 0..(j - 1 - b) : \A m \in (j - k)..(j - 1) : s[m] = "\\"})

\* The code point at index j of a literal opened at index b is consumed by
\* a backslash escape: an odd number of backslashes stands before it.
Escaped(s, b, j) == BackslashRun(s, b, j) % 2 = 1

\* Indices after b of the closing quotes of a literal opened at index b.
Closers(s, b) == {j \in (b + 1)..Len(s) : s[j] = s[b] /\ ~Escaped(s, b, j)}

\* Cursor after the literal opened at index b.
StringEnd(s, b) == IF Closers(s, b) = {} THEN Len(s) ELSE Min(Closers(s, b))

\* Index of the last code point of the content of the literal.
ContentEnd(s, b) ==
    IF Closers(s, b) = {} THEN Len(s) ELSE Min(Closers(s, b)) - 1

\* The character an escaped character stands for.
Resolved(c) ==
    CASE c = "n" -> "\n"
      [] c = "t" -> "\t"
      [] c = "r" -> "\r"
      [] OTHER -> c

\* Value of the content s[j .. e] of the literal opened at index b: the
\* backslashes that escape are dropped, escaped characters are resolved.
RECURSIVE StringValue(_, _, _, _)
StringValue(s, b, j, e) ==
    IF j > e THEN <<>>
    ELSE IF Escaped(s, b, j) THEN <<Resolved(s[j])>> \o StringValue(s, b, j + 1, e)
    ELSE IF s[j] = "\\" THEN StringValue(s, b, j + 1, e)
    ELSE <<s[j]>> \o StringValue(s, b, j + 1, e)

\* C20: a token that starts at a quote is one StringLiteral that ends after
\* the first later occurrence of the same quote that no backslash escapes,
\* or at the end of the text; its payload is the content with the escapes
\* resolved; StringLiteral tokens start at quotes only.
StringLiteralScan ==
    /\ \A i \in 1..Len(tokens) :
           (starts[i] < Len(source) /\ source[starts[i] + 1] \in {"\"", "'"}) =>
               LET b == starts[i] + 1 IN
               /\ tokens[i].value.kind = "StringLiteral"
               /\ TokEnd(i) = StringEnd(source, b)
               /\ tokens[i].value.text =
                      StringValue(source, b, b + 1, ContentEnd(source, b))
    /\ \A i \in 1..Len(tokens) :
           tokens[i].value.kind = "StringLiteral" =>
               source[starts[i] + 1] \in {"\"", "'"}

OtherQuoteInside ==
    /\ pc = "done" /\ source = <<"'", "\"", "'">>
    /\ [i \in 1..Len(tokens) |-> tokens[i].value] =
           <<Tok("StringLiteral", <<"\"">>), Tok("Eof", <<>>)>>

(***************************************************************************)
(* C13, C14: the separator rule of the renderer                            *)
(***************************************************************************)
\* The fold took one more token in this step.
Folded == hand_index' # hand_index

\* The step appended the fragment to the accumulated output, after exactly
\* one space where rule says so and with nothing in between where it does
\* not.
SeparatorStep(rule(_, _)) ==
    Folded =>
        LET fragment == token_fragment(hand_tokens[hand_index'].value) IN
        fragment # None =>
            hand_acc' = IF rule(hand_acc, fragment)
                        THEN hand_acc \o <<" ">> \o fragment
                        ELSE hand_acc \o fragment

\* The last non-whitespace character of acc is identifier-class.
SignificantTail(acc) ==
    LET S == {j \in 1..Len(acc) : ~is_whitespace(acc[j])} IN
    S # {} /\ is_identifier_char(acc[Max(S)])

\* The rule in the words of the specification.
SpecifiedRule(acc, fragment) ==
    /\ acc # <<>>
    /\ fragment # <<>>
    /\ ~is_whitespace(fragment[1])
    /\ SignificantTail(acc)
    /\ is_identifier_char(fragment[1])

\* The rule with the condition the code adds: the accumulated output does
\* not end in whitespace.
AmendedRule(acc, fragment) ==
    /\ SpecifiedRule(acc, fragment)
    /\ ~is_whitespace(acc[Len(acc)])

\* C13 as stated: in every step of the fold a space is inserted before the
\* fragment if and only if the output so far is non-empty, the fragment does
\* not start with whitespace, and the last non-whitespace character of the
\* output and the first character of the fragment are identifier-class.
SeparatorAsSpecified == [][SeparatorStep(SpecifiedRule)]_vars

\* C13 amended: the same rule holds with one more condition, that the output
\* so far does not end in whitespace.
SeparatorAfterWhitespace == [][SeparatorStep(AmendedRule)]_vars

\* An identifier, a whitespace token and an identifier were rendered with
\* the whitespace token's one blank only.
IdentifierAfterBlank ==
    /\ hand_pc = "rendered"
    /\ Kinds(hand_tokens) = <<"Identifier", "WhitespaceTrivia", "Identifier">>
    /\ hand_acc = <<"a", " ", "a">>

\* The rule in terms of the two characters that meet.
MeetingRule(acc, fragment) ==
    /\ acc # <<>>
    /\ fragment # <<>>
    /\ is_identifier_char(acc[Len(acc)])
    /\ is_identifier_char(fragment[1])

\* The output the fold returned for the tokens.
Renders(toks, text) ==
    (hand_pc' = "rendered" /\ hand_tokens = toks) => hand_acc' = text

\* C14: a space is inserted before a fragment exactly when the output so far
\* is non-empty and its last character and the fragment's first character
\* are identifier-class, an Eof token leaves the output as it is, and the
\* three sequences of the tests render as foo bar, foo+42 and let x=1.
SeparatorWhereIdentifiersMeet ==
    [][/\ SeparatorStep(MeetingRule)
       /\ (Folded /\ hand_tokens[hand_index'].value.kind = "Eof")
              => hand_acc' = hand_acc
       /\ Renders(TestFooBar, <<"f", "o", "o", " ", "b", "a", "r">>)
       /\ Renders(TestFooPlus42, <<"f", "o", "o", "+", "4", "2">>)
       /\ Renders(TestLetX, <<"l", "e", "t", " ", "x", "=", "1">>)]_vars

\* The two adjacent identifiers of the test were rendered with a space.
FooBarRendered ==
    /\ hand_pc = "rendered"
    /\ hand_tokens = TestFooBar
    /\ hand_acc = <<"f", "o", "o", " ", "b", "a", "r">>

(***************************************************************************)
(* C19: adjacent operator tokens                                           *)
(***************************************************************************)
Values(toks) == [i \in 1..Len(toks) |-> toks[i].value]

\* An operator or punctuator token: no payload, and a fixed spelling that
\* does not begin like a keyword.
IsOperator(v) ==
    /\ v.text = <<>>
    /\ v.kind \notin TriviaKinds \cup {"Eof", "Illegal"}
    /\ ~is_identifier_start(fixed_fragment(v.kind)[1])

\* C19: when a sequence of two or more operator tokens is rendered and the
\* output scanned, the scan yields those same tokens and then Eof.
OperatorsNotFused ==
    (/\ hand_pc = "rescanned"
     /\ Len(hand_tokens) >= 2
     /\ \A i \in 1..Len(hand_tokens) : IsOperator(hand_tokens[i].value))
        => Values(hand_rescan) = Append(Values(hand_tokens), Tok("Eof", <<>>))

(***************************************************************************)
(* C15: string escaping against string unescaping                          *)
(***************************************************************************)
\* C15: for every string value v, the scan of the rendering of
\* StringLiteral(v) is StringLiteral(v) followed by Eof.
EscapeInvertsUnescape ==
    (/\ hand_pc = "rescanned"
     /\ Len(hand_tokens) = 1
     /\ hand_tokens[1].value.kind = "StringLiteral")
        => Values(hand_rescan) = <<hand_tokens[1].value, Tok("Eof", <<>>)>>

\* The same, of the values without a form feed.
EscapeInvertsUnescapePrintable ==
    (/\ hand_pc = "rescanned"
     /\ Len(hand_tokens) = 1
     /\ hand_tokens[1].value.kind = "StringLiteral"
     /\ ~Contains(hand_tokens[1].value.text, "\f"))
        => Values(hand_rescan) = <<hand_tokens[1].value, Tok("Eof", <<>>)>>

(***************************************************************************)
(* C16: the document store                                                 *)
(***************************************************************************)
\* A notification that stores or removes the entry of its URI.
Stores(n) ==
    \/ n.method = "didOpen"
    \/ n.method = "didChange" /\ n.texts # <<>>

Decides(n) == Stores(n) \/ n.method = "didClose"

\* Index of the most recent deciding notification for uri, 0 when none.
Latest(uri) ==
    Max({0} \cup {i \in 1..Len(delivered) :
                      delivered[i].uri = uri /\ Decides(delivered[i])})

StoreHoldsLatest ==
    \A uri \in Uris :
        LET i == Latest(uri) IN
        IF i > 0 /\ Stores(delivered[i])
        THEN /\ uri \in DOMAIN documents
             /\ documents[uri] = delivered[i].texts[Len(delivered[i].texts)]
        ELSE uri \notin DOMAIN documents

\* The entry of uri, None when there is none.
Entry(map, uri) == IF uri \in DOMAIN map THEN map[uri] ELSE None

OthersUntouched ==
    \A uri \in Uris :
        uri # delivered'[Len(delivered')].uri
            => Entry(documents', uri) = Entry(documents, uri)

\* C16: after any notifications the map holds, for each URI, the whole text
\* of the most recent didOpen or the last change of the most recent didChange
\* with at least one change, whichever is later, and no entry when a didClose
\* came after them or nothing was stored; a notification for one URI leaves
\* the entries of the other URIs as they were.
DocumentStore == []StoreHoldsLatest /\ [][OthersUntouched]_vars

\* A document was opened, changed by a notification with two changes, and
\* then sent a didChange without changes: the second change's text is held.
LastChangeHeld ==
    /\ Len(delivered) = 3
    /\ delivered[1].method = "didOpen"
    /\ delivered[2].method = "didChange" /\ Len(delivered[2].texts) = 2
    /\ delivered[2].texts[1] # delivered[2].texts[2]
    /\ delivered[3].method = "didChange" /\ delivered[3].texts = <<>>
    /\ delivered[1].uri = delivered[2].uri
    /\ delivered[2].uri = delivered[3].uri
    /\ documents[delivered[1].uri] = delivered[2].texts[2]

(***************************************************************************)
(* C21, C22: order of the recorded positions, width of the tokens          *)
(***************************************************************************)
\* Position a is before position b in lexicographic order.
Before(a, b) ==
    \/ a.line < b.line
    \/ a.line = b.line /\ a.column < b.column

\* C21: in the token list of a finished scan the recorded (line, column)
\* positions increase strictly from each token to the next, Eof included.
PositionsIncrease ==
    Finished =>
        \A i \in 1..(Len(tokens) - 1) : Before(tokens[i], tokens[i + 1])

\* A line break was scanned: the token after it is recorded on a later line
\* and at a smaller column.
ColumnFallsAcrossLines ==
    /\ Finished
    /\ \E i \in 1..(Len(tokens) - 1) :
           /\ tokens[i + 1].line > tokens[i].line
           /\ tokens[i + 1].column < tokens[i].column

\* C22: every token other than Eof covers at least one code point: the
\* cursor recorded at its start is before the cursor at which the next token
\* starts (or, for the last token pushed so far, before the present cursor).
NonZeroWidth ==
    \A i \in 1..Len(tokens) :
        tokens[i].value.kind # "Eof" => starts[i] < TokEnd(i)

\* A number, an identifier and an illegal character were scanned one after
\* the other, each over one code point.
ThreeBranchesScanned ==
    /\ Finished
    /\ Kinds(tokens) = <<"NumericLiteral", "Identifier", "Illegal", "Eof">>
    /\ starts = <<0, 1, 2, 3>>

(***************************************************************************)
(* C23: handlers serialised by the state mutex                             *)
(***************************************************************************)
\* The handlers that hold the guard.
Holders == {t \in DOMAIN handlers : handlers[t].pc \in {"locked", "updated"}}

AtMostOneHolder == Cardinality(Holders) <= 1

\* The notifications of the handlers in order, applied one at a time.
RECURSIVE OneAtATime(_, _)
OneAtATime(map, order) ==
    IF order = <<>> THEN map
    ELSE OneAtATime(handler_update(map, handlers[Head(order)].note),
                    Tail(order))

\* The handlers that have made their update, in the order they acquired the
\* mutex.
Updated == SelectSeq(lock_order, LAMBDA t : handlers[t].pc # "locked")

MapIsSerial == documents = OneAtATime(EmptyMap, Updated)

\* A step that changes the map is the step of a handler that holds the guard
\* before and after it; no step of a handler of didSave, hover or completion
\* changes the map.
UpdateUnderLock ==
    documents' # documents =>
        \E t \in Holders :
            /\ handlers[t].note.method \in Locking
            /\ handlers'[t].pc = "updated"
            /\ locked /\ locked'

\* C23: at most one handler holds the mutex at a time, the map is changed
\* only by the handler that holds it, and the map equals the result of
\* applying the notifications one at a time in the order their handlers
\* acquired the mutex; handlers that never take it leave the map as it is.
MutexSerialises ==
    /\ []AtMostOneHolder
    /\ []MapIsSerial
    /\ [][UpdateUnderLock]_vars

\* Every handler has returned; two of them were for the same document, and
\* the one that closes it acquired the mutex before the one that opens it,
\* against the order of their numbers: the opened text is held.
OpenAfterCloseHeld ==
    /\ \A t \in DOMAIN handlers : handlers[t].pc = "done"
    /\ Len(lock_order) = 2
    /\ handlers[lock_order[1]].note.method = "didClose"
    /\ handlers[lock_order[2]].note.method = "didOpen"
    /\ handlers[lock_order[1]].note.uri = handlers[lock_order[2]].note.uri
    /\ lock_order[1] > lock_order[2]
    /\ documents[handlers[lock_order[2]].note.uri]
           = handlers[lock_order[2]].note.texts[1]

=============================================================================
